---- MODULE Spec2Model ----
(***************************************************************************)
(* VRF over BLS12-381 (vrf.ts) and its EIP-2537 verifier contract          *)
(* (EIP2537VrfStyleVerifier), both in src/contracts/hardhat.config.ts.     *)
(*                                                                         *)
(* The curve library (@noble/curves), keccak256 (ethers) and the EIP-2537  *)
(* precompiles are external to the repository.  They are modelled by a     *)
(* scaled-down instance with the same shape, every width divided by 16:    *)
(*   - the curve y^2 = x^3 + 4 over F_p, p = 65539, whose subgroup G1 has  *)
(*     prime order r = 7 (BLS12-381: same equation, 381-bit p, 255-bit r); *)
(*   - field elements of 3 bytes (48), wide coordinates of 4 bytes (64),   *)
(*     wide points of 8 bytes (128), digests and scalars of 2 bytes (32);  *)
(*   - a 16-bit byte-wise hash in place of keccak256.                      *)
(* A point of G1 is represented by its index k in 0..r-1, standing for     *)
(* k*BASE; 0 is the point at infinity.  G1 is cyclic of prime order, so    *)
(* the group law on indices is addition modulo r; the affine coordinates   *)
(* of k*BASE are tabulated from the curve.                                 *)
(***************************************************************************)
EXTENDS Integers, Sequences, FiniteSets, TLC

\* ------------------------------------------------------------ parameters

\* subgroup order r (CURVE_ORDER in vrf.ts, Q in the contract), scaled down
CURVE_ORDER == 7
Q == CURVE_ORDER
\* field modulus p of the scaled-down curve
FIELD_P == 65539
\* bytes of a field element (48), of the zero padding of a wide coordinate
\* (16), of a digest and of a scalar (32)
FpBytes == 3
PadBytes == 1
HashBytes == 2

WideCoord == PadBytes + FpBytes
WidePoint == 2 * WideCoord
Byte == 0..255
Scalars == 0..(CURVE_ORDER - 1)
\* the points of G1 as indices: k stands for k*BASE, 0 for the point at infinity
Points == 0..(CURVE_ORDER - 1)
ZERO == 0
BASE == 1

\* ------------------------------------------------------------ bytes

RECURSIVE Pow256(_)
Pow256(n) == IF n = 0 THEN 1 ELSE 256 * Pow256(n - 1)

\* 2^(8*HashBytes): the range of a digest and of a uint256 of the contract
WordRange == Pow256(HashBytes)

\* numberToBytesBE: n as w big-endian bytes
BE(n, w) == [i \in 1..w |-> (n \div Pow256(w - i)) % 256]

\* BigInt('0x' + hex(bytes)): the big-endian integer of a byte string
RECURSIVE BytesToInt(_)
BytesToInt(b) ==
  IF Len(b) = 0 THEN 0
  ELSE 256 * BytesToInt(SubSeq(b, 1, Len(b) - 1)) + b[Len(b)]

Zeros(n) == [i \in 1..n |-> 0]

\* TextEncoder().encode: UTF-8 of a sequence of code points below 2048
RECURSIVE Utf8(_)
Utf8(cs) ==
  IF Len(cs) = 0 THEN <<>>
  ELSE LET ch == Head(cs)
       IN (IF ch < 128 THEN <<ch>>
           ELSE <<192 + (ch \div 64), 128 + (ch % 64)>>) \o Utf8(Tail(cs))

\* the bytes a string or byte-array value stands for
Utf8OrBytes(x) == IF x.kind = "string" THEN Utf8(x.val) ELSE x.val

\* ------------------------------------------------------------ keccak256

\* stand-in for keccak256: a 16-bit digest folded over the bytes.  Reduced
\* modulo the group order 7 it is 0 on one transcript in seven, where
\* keccak256 modulo the 255-bit r is 0 with probability 2^-255: that an
\* honest transcript hashes to the scalar 0 says nothing about the code,
\* and no property below is refuted by such a transcript alone.
RECURSIVE KeccakFold(_, _)
KeccakFold(h, b) ==
  IF Len(b) = 0 THEN h
  ELSE KeccakFold((h * 1217 + Head(b) * 251 + 4099) % WordRange, Tail(b))

\* the digest as an integer below 2^16
Keccak(b) ==
  LET h == KeccakFold(7919, b)
  IN  (h * 31 + (h \div 256) * 17 + Len(b)) % WordRange

\* the digest as HashBytes bytes (getBytes(keccak256(..)))
KeccakBytes(b) == BE(Keccak(b), HashBytes)

\* ------------------------------------------------------------ the group G1

\* affine coordinates of k*BASE, k = 1..r-1, on y^2 = x^3 + 4 over F_p
AffineX == <<33147, 33415, 64516, 64516, 33415, 33147>>
AffineY == <<17636, 17636, 47903, 17636, 47903, 47903>>

\* Point.add, Point.negate, Point.subtract
G1Add(a, b) == (a + b) % CURVE_ORDER
G1Negate(a) == (CURVE_ORDER - a) % CURVE_ORDER
G1Subtract(a, b) == G1Add(a, G1Negate(b))

\* Point.multiply(scalar) of @noble/curves: the scalar must lie in [1, r),
\* anything else throws ("invalid scalar"); multiply(0) is not the point at
\* infinity but an error
MultiplyThrows(s) == ~(s \in 1..(CURVE_ORDER - 1))
Multiply(P, s) == (P * s) % CURVE_ORDER

\* s*P by repeated addition, for scalars s >= 0
RECURSIVE Times(_, _)
Times(s, P) == IF s = 0 THEN ZERO ELSE G1Add(P, Times(s - 1, P))

\* G1.mapToCurve([u]) and the MAP_FP_TO_G1 precompile: the field-to-curve map
\* with the cofactor cleared, a total function F_p -> G1 (stand-in)
MapToCurve(u) == 1 + ((u + (u \div 11) + (u \div 131)) % (CURVE_ORDER - 1))

\* ------------------------------------------------------------ encodings

\* the sort flag of a compressed point: (y * 2) / p
SortBit(P) == IF 2 * AffineY[P] >= FIELD_P THEN 32 ELSE 0

\* toRawBytes(true): x in FpBytes bytes, flags in the top bits of byte 0
\* (128 compressed, 64 infinity, 32 sort)
CompressedBytes(P) ==
  IF P = ZERO THEN <<192>> \o Zeros(FpBytes - 1)
  ELSE LET x == BE(AffineX[P], FpBytes)
       IN  [x EXCEPT ![1] = x[1] + 128 + SortBit(P)]

\* toRawBytes(false): X || Y, and for the point at infinity the flag byte 64
\* followed by zeros
UncompressedBytes(P) ==
  IF P = ZERO THEN <<64>> \o Zeros(2 * FpBytes - 1)
  ELSE BE(AffineX[P], FpBytes) \o BE(AffineY[P], FpBytes)

\* pointToBytes (vrf.ts): the compressed form
pointToBytes(P) == CompressedBytes(P)

\* pointToEip2537 (vrf.ts): the two halves of toRawBytes(false), each placed
\* after PadBytes zero bytes
pointToEip2537(P) ==
  LET u == UncompressedBytes(P)
  IN  Zeros(PadBytes) \o SubSeq(u, 1, FpBytes)
      \o Zeros(PadBytes) \o SubSeq(u, FpBytes + 1, 2 * FpBytes)

\* ProjectivePoint.fromHex: the point of a compressed or uncompressed
\* encoding; [ok |-> FALSE] stands for the exception on any other bytes
FromHex(b) ==
  LET hits == {P \in Points : CompressedBytes(P) = b \/ UncompressedBytes(P) = b}
  IN  IF hits = {} THEN [ok |-> FALSE, point |-> ZERO]
      ELSE [ok |-> TRUE, point |-> CHOOSE P \in hits : TRUE]

\* EIP-2537 encoding of a G1 point as the precompiles produce and accept it:
\* X || Y, each coordinate left-padded to WideCoord bytes; infinity is all zeros
Eip2537Encode(P) ==
  IF P = ZERO THEN Zeros(WidePoint)
  ELSE Zeros(PadBytes) \o BE(AffineX[P], FpBytes)
       \o Zeros(PadBytes) \o BE(AffineY[P], FpBytes)

\* the precompiles' decoding of a point operand; any byte string that is not
\* the encoding of a point of G1 makes the call fail
Eip2537Decode(b) ==
  LET hits == {P \in Points : Eip2537Encode(P) = b}
  IN  IF hits = {} THEN [ok |-> FALSE, point |-> ZERO]
      ELSE [ok |-> TRUE, point |-> CHOOSE P \in hits : TRUE]

\* ------------------------------------------------------------ vrf.ts

\* values passed to H_p and H_G: a string (its code points), a Uint8Array or
\* a bigint
Str(cs) == [kind |-> "string", val |-> cs]
Bytes(b) == [kind |-> "bytes", val |-> b]
Big(n) == [kind |-> "bigint", val |-> n]

\* number of hex digits of n.toString(16), n >= 0
RECURSIVE HexDigits(_)
HexDigits(n) == IF n < 16 THEN 1 ELSE 1 + HexDigits(n \div 16)

\* the bigint branch of H_p: toString(16).padStart(2*HashBytes, '0') handed to
\* hexToBytes, which throws on a '-' sign and on an odd number of digits
BigintThrows(n) ==
  \/ n < 0
  \/ (HexDigits(n) > 2 * HashBytes /\ HexDigits(n) % 2 = 1)
BigintBytes(n) ==
  IF HexDigits(n) <= 2 * HashBytes THEN BE(n, HashBytes)
  ELSE BE(n, HexDigits(n) \div 2)

\* the bytes H_p pushes for one argument
PartBytes(a) ==
  IF a.kind = "string" THEN Utf8(a.val)
  ELSE IF a.kind = "bytes" THEN a.val
  ELSE BigintBytes(a.val)

\* a concatenation in reverse argument order
RECURSIVE CombinedReversed(_)
CombinedReversed(inputs) ==
  IF Len(inputs) = 0 THEN <<>>
  ELSE CombinedReversed(Tail(inputs)) \o PartBytes(Head(inputs))

\* the concatenation H_p hashes
RECURSIVE Combined(_)
Combined(inputs) ==
  IF Len(inputs) = 0 THEN <<>>
  ELSE PartBytes(Head(inputs)) \o Combined(Tail(inputs))

\* a reduction that is forgotten
ReduceNone(h) == h

\* the reduction at the end of H_p: hashBigInt % CURVE_ORDER
ReduceModOrder(h) == h % CURVE_ORDER

\* H_p(...inputs): kind "throw" when hexToBytes throws, else the scalar
H_p(inputs) ==
  IF \E i \in 1..Len(inputs) :
       inputs[i].kind = "bigint" /\ BigintThrows(inputs[i].val)
  THEN [kind |-> "throw", value |-> 0, hash |-> 0, combined |-> <<>>]
  ELSE LET combined == Combined(inputs)
           hashBigInt == Keccak(combined)
       IN  [kind |-> "value", value |-> ReduceModOrder(hashBigInt),
            hash |-> hashBigInt, combined |-> combined]

\* a string taken as its code points, not encoded
InputBytesRaw(input) == input.val

\* the bytes of an input of H_G, prove and verify (string | Uint8Array)
InputBytes(input) ==
  IF input.kind = "string" THEN Utf8(input.val) ELSE input.val

\* a field element with the digest in the high half and zeros below it
Fp64High(inputBytes) == KeccakBytes(inputBytes) \o Zeros(HashBytes)

\* the field element H_G builds: HashBytes zero bytes, then the digest
Fp64(inputBytes) == Zeros(HashBytes) \o KeccakBytes(inputBytes)

\* H_G(input): keccak, zero-padded to a field element, mapToCurve
\* (Fp.create reduces its argument modulo p)
H_G(input) ==
  LET fpBigInt == BytesToInt(Fp64(InputBytes(input)))
  IN  MapToCurve(fpBigInt % FIELD_P)

\* a response that leaves the secret key out
ResponseWithoutKey(r_1, c, sk) == (r_1 + c) % CURVE_ORDER

\* s_1 = (r_1 + c * sk) % CURVE_ORDER
Response(r_1, c, sk) == (r_1 + c * sk) % CURVE_ORDER

\* the challenge arguments with R and R_m exchanged
TranscriptSwapped(inputBytes, pk, preout_point, R, R_m) ==
  << Bytes(inputBytes), Bytes(pointToEip2537(pk)),
     Bytes(pointToEip2537(preout_point)), Bytes(pointToEip2537(R_m)),
     Bytes(pointToEip2537(R)) >>

\* the arguments of the challenge hash, in the order prove and verify pass them
Transcript(inputBytes, pk, preout_point, R, R_m) ==
  << Bytes(inputBytes), Bytes(pointToEip2537(pk)),
     Bytes(pointToEip2537(preout_point)), Bytes(pointToEip2537(R)),
     Bytes(pointToEip2537(R_m)) >>

\* prove(sk, pk, input, r_1) with r_1 already drawn when it was undefined.
\* multiply throws on a scalar outside [1, r).  The proof is (c, s_1, preout);
\* hashed is the byte string the challenge was hashed from.
prove(sk, pk, input, r_1) ==
  IF MultiplyThrows(sk) \/ MultiplyThrows(r_1)
  THEN [kind |-> "throw"]
  ELSE LET H_in == H_G(input)
           preout_point == Multiply(H_in, sk)
           R == Multiply(BASE, r_1)
           R_m == Multiply(H_in, r_1)
           hp == H_p(Transcript(InputBytes(input), pk, preout_point, R, R_m))
           c == hp.value
       IN  [kind |-> "proof", c |-> c, s_1 |-> Response(r_1, c, sk),
            preout |-> pointToBytes(preout_point), hashed |-> hp.combined]

\* the bytes verify (vrf.ts) hashes for the output: proof.preout || inputBytes
OutputPreimage(preout, inputBytes) == preout \o inputBytes

\* a completed call of verify: what it returned (kind "null" or "out") or
\* that it threw, whether it got to compare c_computed with c, and whether
\* it computed the output hash
Thrown == [kind |-> "throw", compared |-> FALSE, c_computed |-> 0,
           outHashed |-> FALSE, out |-> <<>>]

\* a verifier that adds the scaled point instead of subtracting it
AddScaled(A, s, B, c) ==
  IF MultiplyThrows(s) \/ MultiplyThrows(c)
  THEN [kind |-> "throw", point |-> ZERO]
  ELSE [kind |-> "point", point |-> G1Add(Multiply(A, s), Multiply(B, c))]

\* lines 245-247 and 251-253 of verify: A.multiply(s).subtract(B.multiply(c))
SubtractScaled(A, s, B, c) ==
  IF MultiplyThrows(s) \/ MultiplyThrows(c)
  THEN [kind |-> "throw", point |-> ZERO]
  ELSE [kind |-> "point", point |-> G1Subtract(Multiply(A, s), Multiply(B, c))]

\* a verify that answers a mismatch with an all-zero output instead of null
DecideDefault(c_computed, proof, inputBytes) ==
  [kind |-> "out", compared |-> TRUE, c_computed |-> c_computed,
   outHashed |-> c_computed = proof.c,
   out |-> IF c_computed = proof.c
           THEN KeccakBytes(OutputPreimage(proof.preout, inputBytes))
           ELSE Zeros(HashBytes)]

\* lines 273-283 of verify: null on a mismatch, else keccak(preout || input)
Decide(c_computed, proof, inputBytes) ==
  IF c_computed # proof.c
  THEN [kind |-> "null", compared |-> TRUE, c_computed |-> c_computed,
        outHashed |-> FALSE, out |-> <<>>]
  ELSE [kind |-> "out", compared |-> TRUE, c_computed |-> c_computed,
        outHashed |-> TRUE,
        out |-> KeccakBytes(OutputPreimage(proof.preout, inputBytes))]

\* verify(pk, input, proof): fromHex throws on bytes that are no point,
\* multiply throws on a scalar outside [1, r).  A call that got to the
\* challenge hash also records the R and R_m it reconstructed and the byte
\* string it hashed.
verify(pk, input, proof) ==
  LET dec == FromHex(proof.preout)
      R == SubtractScaled(BASE, proof.s_1, pk, proof.c)
      R_m == SubtractScaled(H_G(input), proof.s_1, dec.point, proof.c)
  IN
  IF ~dec.ok \/ R.kind = "throw" \/ R_m.kind = "throw"
  THEN Thrown
  ELSE LET preout_point == dec.point
           inputBytes == InputBytes(input)
           hp == H_p(Transcript(inputBytes, pk, preout_point, R.point, R_m.point))
       IN  Decide(hp.value, proof, inputBytes)
           @@ [R |-> R.point, R_m |-> R_m.point, hashed |-> hp.combined]

\* a sampler that reduces its entropy modulo r and so can return 0
randomPrivateKeyMod(entropy) == entropy % CURVE_ORDER

\* bls12_381.utils.randomPrivateKey() on the integer of the random bytes it
\* drew: mapHashToField, mod(num, r - 1) + 1, a scalar in [1, r); nothing is
\* rejected and nothing is drawn again
randomPrivateKey(entropy) == (entropy % (CURVE_ORDER - 1)) + 1

\* a prove that draws its nonce whether or not one was supplied
NonceAlwaysDrawn(supplied, nonce, entropy) ==
  [r_1 |-> randomPrivateKey(entropy) % CURVE_ORDER, draws |-> 1]

\* lines 191-194 of prove: the supplied nonce as it is, or else one call of
\* randomPrivateKey() reduced modulo r; draws is the number of calls of the
\* sampler
NonceOf(supplied, nonce, entropy) ==
  IF supplied THEN [r_1 |-> nonce, draws |-> 0]
  ELSE [r_1 |-> randomPrivateKey(entropy) % CURVE_ORDER, draws |-> 1]

\* a key generation that returns the base point for every secret key
generateKeyPairBase(skRaw) ==
  [kind |-> "keys", sk |-> skRaw % CURVE_ORDER, pk |-> BASE]

\* generateKeyPair() on the scalar randomPrivateKey() returned; BASE.multiply
\* throws on sk = 0
generateKeyPair(skRaw) ==
  LET sk == skRaw % CURVE_ORDER
  IN  IF MultiplyThrows(sk) THEN [kind |-> "throw", sk |-> sk, pk |-> ZERO]
      ELSE [kind |-> "keys", sk |-> sk, pk |-> Multiply(BASE, sk)]

\* ------------------------------------------------------------ EIP-2537 precompiles

\* MAP_FP_TO_G1 (0x10): one field element of WideCoord bytes, below p;
\* returns the wide encoding of the mapped point
PrecompileMapFpToG1(fp) ==
  IF Len(fp) # WideCoord \/ BytesToInt(fp) >= FIELD_P
  THEN [ok |-> FALSE, result |-> <<>>]
  ELSE [ok |-> TRUE, result |-> Eip2537Encode(MapToCurve(BytesToInt(fp)))]

\* G1MSM (0x0c) on two pairs: [P1 || s1 || P2 || s2]; fails on a wrong length
\* or on an operand that is no point of G1; scalars are any 256-bit integers
PrecompileG1Msm(input) ==
  LET pair == WidePoint + HashBytes
  IN
  IF Len(input) # 2 * pair THEN [ok |-> FALSE, result |-> <<>>]
  ELSE LET P1 == Eip2537Decode(SubSeq(input, 1, WidePoint))
           s1 == BytesToInt(SubSeq(input, WidePoint + 1, pair))
           P2 == Eip2537Decode(SubSeq(input, pair + 1, pair + WidePoint))
           s2 == BytesToInt(SubSeq(input, pair + WidePoint + 1, 2 * pair))
       IN  IF ~P1.ok \/ ~P2.ok THEN [ok |-> FALSE, result |-> <<>>]
           ELSE [ok |-> TRUE,
                 result |-> Eip2537Encode(
                   G1Add(Times(s1 % CURVE_ORDER, P1.point),
                         Times(s2 % CURVE_ORDER, P2.point)))]

\* G1ADD (0x0b): [P1 || P2]; fails on a wrong length or on an operand that
\* is no point
PrecompileG1Add(input) ==
  IF Len(input) # 2 * WidePoint THEN [ok |-> FALSE, result |-> <<>>]
  ELSE LET P1 == Eip2537Decode(SubSeq(input, 1, WidePoint))
           P2 == Eip2537Decode(SubSeq(input, WidePoint + 1, 2 * WidePoint))
       IN  IF ~P1.ok \/ ~P2.ok THEN [ok |-> FALSE, result |-> <<>>]
           ELSE [ok |-> TRUE, result |-> Eip2537Encode(G1Add(P1.point, P2.point))]

\* the chains a contract can be deployed on: one with the EIP-2537
\* precompiles, one without (no code at their addresses)
Chains == {"eip2537", "none"}

\* addr.call{gas: ..}(input) on a precompile address: (success, result).  A
\* call to an address without code succeeds and returns no data.
PrecompileCall(chain, addr, input) ==
  IF chain = "none" THEN [ok |-> TRUE, result |-> <<>>]
  ELSE IF addr = "BLS12_G1ADD" THEN PrecompileG1Add(input)
  ELSE IF addr = "BLS12_G1MSM" THEN PrecompileG1Msm(input)
  ELSE PrecompileMapFpToG1(input)

\* ------------------------------------------------------------ BLS12381Test

\* a completed call of a test function: a revert with its reason string, or
\* the returned (success, result); calls are the precompile calls it made
\* and events the TestResult events it emitted
TestRevert(reason) ==
  [kind |-> "revert", reason |-> reason, success |-> FALSE, result |-> <<>>,
   calls |-> <<>>, events |-> <<>>]

\* a test function that requires its precompile call to succeed
TestReportRequiring(operation, addr, input, r) ==
  IF ~r.ok
  THEN [kind |-> "revert", reason |-> "precompile call failed",
        success |-> FALSE, result |-> <<>>,
        calls |-> <<[addr |-> addr, input |-> input]>>, events |-> <<>>]
  ELSE [kind |-> "ret", reason |-> "", success |-> r.ok, result |-> r.result,
        calls |-> <<[addr |-> addr, input |-> input]>>,
        events |-> <<[operation |-> operation, success |-> r.ok,
                      result |-> r.result]>>]

\* the lines after the call of a test function, r being what the call of the
\* precompile returned: emit TestResult(operation, success, result), return
TestReport(operation, addr, input, r) ==
  [kind |-> "ret", reason |-> "", success |-> r.ok, result |-> r.result,
   calls |-> <<[addr |-> addr, input |-> input]>>,
   events |-> <<[operation |-> operation, success |-> r.ok,
                 result |-> r.result]>>]

\* the lines after the require statements of a test function on G1: one call
\* of the precompile, emit, return
TestCall(chain, operation, addr, input) ==
  TestReport(operation, addr, input, PrecompileCall(chain, addr, input))

\* a testG1Add that checks the length of its first operand only
testG1AddFirstOnly(chain, p1, p2) ==
  IF Len(p1) # WidePoint THEN TestRevert("G1 point must be 128 bytes")
  ELSE TestCall(chain, "G1ADD", "BLS12_G1ADD", p1 \o p2)

\* BLS12381Test.testG1Add(p1, p2)
testG1Add(chain, p1, p2) ==
  IF Len(p1) # WidePoint THEN TestRevert("G1 point must be 128 bytes")
  ELSE IF Len(p2) # WidePoint THEN TestRevert("G1 point must be 128 bytes")
  ELSE TestCall(chain, "G1ADD", "BLS12_G1ADD", p1 \o p2)

\* BLS12381Test.testMapFpToG1(fp)
testMapFpToG1(chain, fp) ==
  IF Len(fp) # WideCoord THEN TestRevert("Field element must be 64 bytes")
  ELSE TestCall(chain, "MAP_FP_TO_G1", "BLS12_MAP_FP_TO_G1", fp)

\* BLS12381Test.testG1Msm(p1, s1, p2, s2), the scalars as bytes32
testG1Msm(chain, p1, s1, p2, s2) ==
  IF ~(Len(p1) = WidePoint /\ Len(p2) = WidePoint)
  THEN TestRevert("G1 point must be 128 bytes")
  ELSE TestCall(chain, "G1MSM", "BLS12_G1MSM", p1 \o s1 \o p2 \o s2)

\* The precompiles on G2 and the pairing are not computed: r is what the
\* call returned, any of the outcomes a call can have.

\* BLS12381Test.testG2Add(q1, q2); a G2 point has 2*WidePoint (256) bytes
testG2Add(q1, q2, r) ==
  IF Len(q1) # 2 * WidePoint THEN TestRevert("G2 point must be 256 bytes")
  ELSE IF Len(q2) # 2 * WidePoint THEN TestRevert("G2 point must be 256 bytes")
  ELSE TestReport("G2ADD", "BLS12_G2ADD", q1 \o q2, r)

\* BLS12381Test.testG2Msm(q1, s1, q2, s2)
testG2Msm(q1, s1, q2, s2, r) ==
  IF ~(Len(q1) = 2 * WidePoint /\ Len(q2) = 2 * WidePoint)
  THEN TestRevert("G2 point must be 256 bytes")
  ELSE TestReport("G2MSM", "BLS12_G2MSM", q1 \o s1 \o q2 \o s2, r)

\* BLS12381Test.testPairing(pairs); a pair has 3*WidePoint (384) bytes
testPairing(pairs, r) ==
  IF Len(pairs) % (3 * WidePoint) # 0
  THEN TestRevert("Pairing input must be k*384 bytes")
  ELSE TestReport("PAIRING", "BLS12_PAIRING", pairs, r)

\* BLS12381Test.testMapFp2ToG2(fp2); an Fp2 element has 2*WideCoord (128) bytes
testMapFp2ToG2(fp2, r) ==
  IF Len(fp2) # 2 * WideCoord
  THEN TestRevert("Field element Fp2 must be 128 bytes")
  ELSE TestReport("MAP_FP2_TO_G2", "address(0x11)", fp2, r)

\* BLS12381Test.testIdentityElements(): this.testG1Add on two zero points,
\* this.testMapFpToG1 on the zero field element; a revert of an inner call
\* reverts the whole call
testIdentityElements(chain) ==
  LET a == testG1Add(chain, Zeros(WidePoint), Zeros(WidePoint))
      b == testMapFpToG1(chain, Zeros(WideCoord))
  IN  IF a.kind = "revert"
      THEN [kind |-> "revert", reason |-> a.reason, calls |-> a.calls,
            events |-> <<>>, g1AddResult |-> <<>>, mapResult |-> <<>>]
      ELSE IF b.kind = "revert"
      THEN [kind |-> "revert", reason |-> b.reason, calls |-> a.calls \o b.calls,
            events |-> <<>>, g1AddResult |-> <<>>, mapResult |-> <<>>]
      ELSE [kind |-> "ret", reason |-> "", calls |-> a.calls \o b.calls,
            events |-> a.events \o b.events,
            g1AddResult |-> <<a.success, a.result>>,
            mapResult |-> <<b.success, b.result>>]

\* ------------------------------------------------------------ EIP2537VrfStyleVerifier

G1_GENERATOR == Eip2537Encode(BASE)

\* _negateModQ(c): (q - c) mod q, 0 for c = 0
_negateModQ(c) == IF c = 0 THEN 0 ELSE Q - (c % Q)

\* _hashToScalarQ(data): uint256(keccak256(data)) % Q
_hashToScalarQ(data) == Keccak(data) % Q

\* the bytes the contract hashes for the output: preout || inBlob
SolOutputPreimage(preout, inBlob) == preout \o inBlob

\* a completed call of the contract's verify: a revert with its error, or
\* the returned (ok, out); compared and outHashed as for vrf.ts
Revert(err) ==
  [kind |-> "revert", err |-> err, ok |-> FALSE, compared |-> FALSE,
   cPrime |-> 0, outHashed |-> FALSE, out |-> <<>>]

\* the precompile calls a call of verify made before it ended
AfterCalls(res, calls) == res @@ [calls |-> calls]

\* lines 549-554 of verify: (false, bytes32(0)) on a mismatch, else
\* (true, keccak256(preout || inBlob))
SolDecide(cPrime, c, preout, inBlob) ==
  IF cPrime # c
  THEN [kind |-> "ret", err |-> "", ok |-> FALSE, compared |-> TRUE,
        cPrime |-> cPrime, outHashed |-> FALSE, out |-> Zeros(HashBytes)]
  ELSE [kind |-> "ret", err |-> "", ok |-> TRUE, compared |-> TRUE,
        cPrime |-> cPrime, outHashed |-> TRUE,
        out |-> KeccakBytes(SolOutputPreimage(preout, inBlob))]

\* the field element _mapToG1 builds: new bytes(64) with the digest stored in
\* its low half
SolFp64(data) == Zeros(HashBytes) \o KeccakBytes(data)

\* a _mapToG1 that hands on whatever the call returned
_mapToG1Unchecked(chain, data) ==
  LET call == PrecompileCall(chain, "BLS12_MAP_FP_TO_G1", SolFp64(data))
  IN  [ok |-> TRUE, err |-> "", out |-> call.result,
       calls |-> <<"BLS12_MAP_FP_TO_G1">>]

\* _mapToG1(data): keccak, the field element 0..0 || h, MAP_FP_TO_G1; calls
\* are the precompile calls made
_mapToG1(chain, data) ==
  LET call == PrecompileCall(chain, "BLS12_MAP_FP_TO_G1", SolFp64(data))
  IN  IF ~call.ok \/ Len(call.result) # WidePoint
      THEN [ok |-> FALSE, err |-> "PrecompileMapToG1Failure", out |-> <<>>,
            calls |-> <<"BLS12_MAP_FP_TO_G1">>]
      ELSE [ok |-> TRUE, err |-> "", out |-> call.result,
            calls |-> <<"BLS12_MAP_FP_TO_G1">>]

\* a _g1Msm2 without the length check on its operands
_g1Msm2NoLengthCheck(chain, P1, s1, P2, s2) ==
  LET input == P1 \o BE(s1, HashBytes) \o P2 \o BE(s2, HashBytes)
      call == PrecompileCall(chain, "BLS12_G1MSM", input)
  IN  IF ~call.ok \/ Len(call.result) # WidePoint
      THEN [ok |-> FALSE, err |-> "PrecompileG1MsmFailure", out |-> <<>>,
            calls |-> <<"BLS12_G1MSM">>]
      ELSE [ok |-> TRUE, err |-> "", out |-> call.result,
            calls |-> <<"BLS12_G1MSM">>]

\* _g1Msm2(P1, s1, P2, s2)
_g1Msm2(chain, P1, s1, P2, s2) ==
  IF Len(P1) # WidePoint \/ Len(P2) # WidePoint
  THEN [ok |-> FALSE, err |-> "InvalidPointLength", out |-> <<>>,
        calls |-> <<>>]
  ELSE LET input == P1 \o BE(s1, HashBytes) \o P2 \o BE(s2, HashBytes)
           call == PrecompileCall(chain, "BLS12_G1MSM", input)
       IN  IF ~call.ok \/ Len(call.result) # WidePoint
           THEN [ok |-> FALSE, err |-> "PrecompileG1MsmFailure", out |-> <<>>,
                 calls |-> <<"BLS12_G1MSM">>]
           ELSE [ok |-> TRUE, err |-> "", out |-> call.result,
                 calls |-> <<"BLS12_G1MSM">>]

\* the contract's storage after a call of verify: the contract declares
\* constants only and verify assigns no state variable
StorageAfterVerify(slots, res) == slots

\* a scalar check that lets every scalar pass
ScalarNeverOutOfRange(c, s1) == FALSE

\* line 526 of verify: c >= Q || s1 >= Q
ScalarOutOfRange(c, s1) == c >= Q \/ s1 >= Q

\* EIP2537VrfStyleVerifier.verify(pk, inBlob, c, s1, preout) on a chain
SolVerify(chain, pk, inBlob, c, s1, preout) ==
  IF Len(pk) # WidePoint \/ Len(preout) # WidePoint
  THEN AfterCalls(Revert("InvalidPointLength"), <<>>)
  ELSE IF ScalarOutOfRange(c, s1) THEN AfterCalls(Revert("InvalidScalar"), <<>>)
  ELSE LET hIn == _mapToG1(chain, inBlob)
       IN
       IF ~hIn.ok THEN AfterCalls(Revert(hIn.err), hIn.calls)
       ELSE LET R == _g1Msm2(chain, G1_GENERATOR, s1, pk, _negateModQ(c))
            IN
            IF ~R.ok THEN AfterCalls(Revert(R.err), hIn.calls \o R.calls)
            ELSE LET Rm == _g1Msm2(chain, hIn.out, s1, preout, _negateModQ(c))
                 IN
                 IF ~Rm.ok
                 THEN AfterCalls(Revert(Rm.err), hIn.calls \o R.calls \o Rm.calls)
                 ELSE AfterCalls(
                        SolDecide(
                          _hashToScalarQ(inBlob \o pk \o preout \o R.out \o Rm.out),
                          c, preout, inBlob),
                        hIn.calls \o R.calls \o Rm.calls)

\* ------------------------------------------------------------ TradeList.vue

\* the number of blocks of an epoch
EpochLength == 5

\* Math.round(blockNum / 5) in place of Math.floor
EpochNumberRounded(blockNum) == (2 * blockNum + EpochLength) \div (2 * EpochLength)

\* Math.floor(Number(trade.blockNumber) / 5), block numbers being unsigned
EpochNumberOf(blockNum) == blockNum \div EpochLength

\* groups.has / groups.set / groups.get(epochNum).push(trade) on the Map,
\* kept as the sequence of its entries in insertion order
PushTrade(groups, trade) ==
  LET epochNum == EpochNumberOf(trade.blockNumber)
  IN  IF \E i \in 1..Len(groups) : groups[i].epochNumber = epochNum
      THEN [i \in 1..Len(groups) |->
              IF groups[i].epochNumber = epochNum
              THEN [groups[i] EXCEPT !.trades = Append(@, trade)]
              ELSE groups[i]]
      ELSE Append(groups, [epochNumber |-> epochNum, trades |-> <<trade>>])

\* trades.value.forEach(trade => ...)
RECURSIVE GroupTrades(_, _)
GroupTrades(groups, ts) ==
  IF ts = <<>> THEN groups
  ELSE GroupTrades(PushTrade(groups, Head(ts)), Tail(ts))

\* one entry put into a sequence sorted by (a, b) => b.epochNumber -
\* a.epochNumber, behind the entries that compare equal (the sort is stable)
RECURSIVE InsertByEpoch(_, _)
InsertByEpoch(sorted, g) ==
  IF sorted = <<>> THEN <<g>>
  ELSE IF Head(sorted).epochNumber >= g.epochNumber
       THEN <<Head(sorted)>> \o InsertByEpoch(Tail(sorted), g)
       ELSE <<g>> \o sorted

\* .sort((a, b) => b.epochNumber - a.epochNumber)
RECURSIVE SortByEpoch(_, _)
SortByEpoch(sorted, rest) ==
  IF rest = <<>> THEN sorted
  ELSE SortByEpoch(InsertByEpoch(sorted, Head(rest)), Tail(rest))

\* the computed epochGroups for trades.value = ts
epochGroups(ts) ==
  IF Len(ts) = 0 THEN <<>>
  ELSE LET groups == GroupTrades(<<>>, ts)
           result == [i \in 1..Len(groups) |->
                       [epochNumber |-> groups[i].epochNumber,
                        startBlock |-> groups[i].epochNumber * EpochLength,
                        endBlock |-> groups[i].epochNumber * EpochLength + 4,
                        trades |-> groups[i].trades,
                        isExpanded |-> FALSE]]
       IN  SortByEpoch(<<>>, result)

\* loadTrades up to its await, the contract being there:
\* isLoading.value = true; errorMessage.value = ''
LoadStarted == [isLoading |-> TRUE, errorMessage |-> ""]

\* catch: errorMessage.value = error.message || 'Failed to load trades'
ErrorText(message) == IF message = "" THEN "Failed to load trades" ELSE message

\* ------------------------------------------------------------ useBlockEngineWithDemo.ts

\* the instances of useBlockEngineWithDemo in AppWithBlocks: its own, the one
\* in useBlockOrdersWithDemo and the one in useEpochProgressWithDemo
HookInstances ==
  {"useBlockEngineWithDemo", "useBlockOrdersWithDemo", "useEpochProgressWithDemo"}

\* an instance before its component is mounted: demoDataLoaded is
\* useState(false), no effect has run (deps is what the last effect ran with)
FreshHook ==
  [alive |-> FALSE, demoDataLoaded |-> FALSE, deps |-> "none",
   subscriptions |-> 0]

\* the shared blockEngine as the module creates it
FreshEngine ==
  [generated |-> 0, preloaded |-> 0, started |-> 0, subscribers |-> 0]

\* the effect of an instance h (demoMode 'dynamic', the default): load the
\* demo data when demoDataLoaded is false, start the engine,
\* setDemoDataLoaded(true); subscribe
EffectRun(h, e) ==
  [hook |-> [h EXCEPT !.demoDataLoaded = TRUE,
                      !.deps = IF h.demoDataLoaded THEN "true" ELSE "false",
                      !.subscriptions = @ + 1],
   engine |-> IF ~h.demoDataLoaded
              THEN [e EXCEPT !.generated = @ + 1, !.preloaded = @ + 1,
                             !.started = @ + 1, !.subscribers = @ + 1]
              ELSE [e EXCEPT !.subscribers = @ + 1]]

\* the function the effect returned: unsubscribe
EffectCleanup(h, e) ==
  [hook |-> [h EXCEPT !.subscriptions = @ - 1],
   engine |-> [e EXCEPT !.subscribers = @ - 1]]

\* ------------------------------------------------------------ state

VARIABLES
  kp,       \* the key pair generateKeyPair returned, or None
  vec,      \* the test vector (pk, input, c, s_1, preout) under verification, or None
  origin,   \* where vec comes from: chosen freely, or returned by prove
  tsRes,    \* the completed call of verify (vrf.ts) on vec, or Pending
  solRes,   \* the completed call of the contract's verify on vec, or Pending
  hpCall,   \* the last call of H_p or _hashToScalarQ, or None
  hgCalls,  \* the calls of H_G so far: <<[input, point, fp, solFp]>>
  call,     \* the last call made at a contract boundary with its result, or None
  log,      \* the prove and verify calls completed so far, in order of completion
  storage,  \* the storage slots of EIP2537VrfStyleVerifier written so far
  contract, \* TradeList: web3.getContract() returns a contract
  mounted,  \* TradeList: onMounted has run
  listening,    \* TradeList: the listener for 'TradeSubmitted' is registered
  trades,       \* TradeList: trades.value
  isLoading,    \* TradeList: isLoading.value
  errorMessage, \* TradeList: errorMessage.value
  loads,    \* TradeList: the loadTrades calls awaiting getAllTrades, by number
  newest,   \* TradeList: the loadTrades call started last, and how it ended
  last,     \* TradeList: the last step of a loadTrades call, the state before it
  appMounts,    \* AppWithBlocks: how often the component was mounted
  hooks,    \* AppWithBlocks: the state of each useBlockEngineWithDemo instance
  engine    \* the shared blockEngine: what was done to it so far

tradeVars ==
  <<contract, mounted, listening, trades, isLoading, errorMessage, loads,
    newest, last>>
demoVars == <<appMounts, hooks, engine>>
uiVars == <<tradeVars, demoVars>>
vars ==
  <<kp, vec, origin, tsRes, solRes, hpCall, hgCalls, call, log, storage, uiVars>>
vrfVars == <<kp, vec, origin, tsRes, solRes>>
hashVars == <<hpCall, hgCalls>>
coreVars == <<vrfVars, hashVars, call>>
extVars == <<log, storage, uiVars>>

None == [kind |-> "none"]
Pending == [kind |-> "pending"]

\* bounds of the model
MaxParts == 2
MaxHgCalls == 2
MaxEntropy == 13
MaxCalls == 2
MaxTrades == 3
MaxBlock == 10
MaxLoads == 3
MaxMounts == 2

\* the inputs of prove and verify: "t", the bytes of "b", and a string whose
\* UTF-8 encoding is longer than the string
Inputs == {Str(<<116>>), Bytes(<<98>>), Str(<<233>>)}

\* the inputs of H_G calls: strings and byte arrays, among them a string and
\* its own UTF-8 bytes
HgInputs == {Str(<<116>>), Bytes(<<116>>), Str(<<233>>), Bytes(<<195, 169>>),
             Bytes(<<233>>), Str(<<98, 233>>), Bytes(<<98, 195, 169>>), Bytes(<<>>)}

\* the arguments of H_p calls: strings, byte arrays and bigints, among them
\* bigints of more than 2*HashBytes hex digits and a negative one
HpParts == {Str(<<116>>), Str(<<233>>), Bytes(<<>>), Bytes(<<116>>),
            Bytes(<<195, 169>>), Bytes(<<0, 5>>), Big(0), Big(5), Big(65535),
            Big(65536), Big(1048576), Big(0 - 1)}

\* the byte strings handed to the contracts as G1 points: encodings of
\* points, the encoding of infinity, a buffer of the right length that is no
\* point (x = y = 1), and buffers one byte short, one byte long and empty
PointBufs ==
  { Eip2537Encode(BASE), Eip2537Encode(3), Eip2537Encode(ZERO),
    Zeros(PadBytes) \o BE(1, FpBytes) \o Zeros(PadBytes) \o BE(1, FpBytes),
    SubSeq(Eip2537Encode(BASE), 1, WidePoint - 1),
    Eip2537Encode(BASE) \o <<0>>,
    <<>> }

\* the byte strings handed to testMapFpToG1 as field elements: below p, p
\* itself, and buffers one byte short, one byte long and empty
FpBufs ==
  { BE(5, WideCoord), BE(FIELD_P - 1, WideCoord), BE(FIELD_P, WideCoord),
    BE(5, WideCoord - 1), <<0>> \o BE(5, WideCoord), <<>> }

\* the uint256 scalars handed to the contract: inside [0, Q), Q itself and
\* the largest word
BoundaryScalars == {0, 3, Q - 1, Q, WordRange - 1}

\* the inBlob arguments
BoundaryBlobs == {<<116>>, <<>>}

\* the byte strings handed to the test functions as G2 points: of the right
\* length (zeros and others), one byte short and empty
G2Bufs ==
  { Zeros(2 * WidePoint), Eip2537Encode(BASE) \o Eip2537Encode(3),
    Zeros(2 * WidePoint - 1), <<>> }

\* the byte strings handed to testPairing: no pair, one pair, two pairs, and
\* one byte short of a pair
PairingBufs ==
  { <<>>, Zeros(3 * WidePoint), Zeros(6 * WidePoint), Zeros(3 * WidePoint - 1) }

\* the byte strings handed to testMapFp2ToG2
Fp2Bufs ==
  { Zeros(2 * WideCoord), BE(5, WideCoord) \o BE(3, WideCoord),
    Zeros(2 * WideCoord + 1) }

\* the bytes32 scalars handed to testG1Msm and testG2Msm
TestScalars == {BE(0, HashBytes), BE(3, HashBytes), BE(WordRange - 1, HashBytes)}

\* what a call of a precompile on G2 or of the pairing can return: failure
\* (bad operand, out of gas), a result, or nothing from an address without
\* code
G2Outcomes ==
  { [ok |-> FALSE, result |-> <<>>], [ok |-> TRUE, result |-> <<>>],
    [ok |-> TRUE, result |-> Zeros(2 * WidePoint)],
    [ok |-> TRUE, result |-> BE(1, HashBytes)] }

RECURSIVE SeqsUpTo(_, _)
SeqsUpTo(S, n) ==
  IF n = 0 THEN {<<>>}
  ELSE LET shorter == SeqsUpTo(S, n - 1)
       IN  shorter \cup {Append(q, x) : q \in shorter, x \in S}

Init ==
  /\ kp = None
  /\ vec = None
  /\ origin = None
  /\ tsRes = Pending
  /\ solRes = Pending
  /\ hpCall = None
  /\ hgCalls = <<>>
  /\ call = None
  /\ log = <<>>
  /\ storage = {}
  /\ contract = FALSE
  /\ mounted = FALSE
  /\ listening = FALSE
  /\ trades = <<>>
  /\ isLoading = FALSE
  /\ errorMessage = ""
  /\ loads = {}
  /\ newest = None
  /\ last = None
  /\ appMounts = 0
  /\ hooks = [h \in HookInstances |-> FreshHook]
  /\ engine = FreshEngine

\* ------------------------------------------------------------ actions: VRF

\* generateKeyPair(): one call of randomPrivateKey(), whatever random bytes
\* it draws; entropy is the integer of those bytes and draws the number of
\* calls of the sampler
GenerateKeyPair ==
  /\ kp = None /\ vec = None
  /\ \E entropy \in 0..MaxEntropy :
       kp' = generateKeyPair(randomPrivateKey(entropy))
             @@ [entropy |-> entropy, draws |-> 1]
  /\ UNCHANGED <<vec, origin, tsRes, solRes, hashVars, call, extVars>>

\* the nonces a caller supplies: the scalars of [0, r) and two values
\* outside
Nonces == Scalars \cup {CURVE_ORDER, CURVE_ORDER + 2}

\* the state after prove(sk, pk, input, r_1?) returned or threw; nonce is the
\* supplied argument and entropy the random integer of the draw, each 0
\* when there is none
AfterProve(input, supplied, nonce, entropy) ==
  LET n == NonceOf(supplied, nonce, entropy)
      p == prove(kp.sk, kp.pk, input, n.r_1)
  IN  /\ origin' = [kind |-> IF p.kind = "proof" THEN "proved" ELSE "threw",
                    sk |-> kp.sk, r_1 |-> n.r_1, supplied |-> supplied,
                    nonce |-> nonce, entropy |-> entropy, draws |-> n.draws,
                    input |-> input,
                    hashed |-> IF p.kind = "proof" THEN p.hashed ELSE <<>>]
      /\ vec' = IF p.kind = "proof"
                THEN [kind |-> "vector", pk |-> kp.pk, input |-> input,
                      c |-> p.c, s_1 |-> p.s_1, preout |-> p.preout]
                ELSE None
      /\ UNCHANGED <<kp, tsRes, solRes, hashVars, call, extVars>>

\* prove(sk, pk, input): r_1 is drawn, randomPrivateKey() reduced modulo r
ProveDrawn ==
  /\ kp.kind = "keys" /\ origin = None
  /\ \E input \in Inputs, entropy \in 0..MaxEntropy :
       AfterProve(input, FALSE, 0, entropy)

\* prove(sk, pk, input, r_1) with the nonce supplied by the caller
ProveWithNonce ==
  /\ kp.kind = "keys" /\ origin = None
  /\ \E input \in Inputs, r_1 \in Nonces :
       AfterProve(input, TRUE, r_1, 0)

\* a test vector chosen freely: a public key, an input, two scalars in [0, r)
\* and the compact encoding of a point
ChooseVector ==
  /\ kp = None /\ origin = None
  /\ \E pk \in Points \ {ZERO}, input \in Inputs, c \in Scalars,
        s_1 \in Scalars, P \in Points :
       vec' = [kind |-> "vector", pk |-> pk, input |-> input, c |-> c,
               s_1 |-> s_1, preout |-> pointToBytes(P)]
  /\ origin' = [kind |-> "chosen"]
  /\ UNCHANGED <<kp, tsRes, solRes, hashVars, call, extVars>>

\* verify(pk, input, proof) of vrf.ts on the vector
VerifyTs ==
  /\ vec # None /\ tsRes = Pending
  /\ tsRes' = verify(vec.pk, vec.input,
                     [c |-> vec.c, s_1 |-> vec.s_1, preout |-> vec.preout])
  /\ UNCHANGED <<kp, vec, origin, solRes, hashVars, call, extVars>>

\* EIP2537VrfStyleVerifier.verify on the same vector, its points in the wide
\* encoding and its input as bytes
VerifySol ==
  /\ vec # None /\ solRes = Pending
  /\ solRes' = SolVerify("eip2537", Eip2537Encode(vec.pk), InputBytes(vec.input),
                         vec.c, vec.s_1,
                         Eip2537Encode(FromHex(vec.preout).point))
  /\ UNCHANGED <<kp, vec, origin, tsRes, hashVars, call, extVars>>

Next ==
  \/ GenerateKeyPair
  \/ ProveDrawn
  \/ ProveWithNonce
  \/ ChooseVector
  \/ VerifyTs
  \/ VerifySol

Spec == Init /\ [][Next]_vars

\* ------------------------------------------------------------ actions: hashers

\* H_p(...inputs) on an argument list
CallHp ==
  /\ hpCall = None /\ hgCalls = <<>>
  /\ \E inputs \in SeqsUpTo(HpParts, MaxParts) :
       hpCall' = [kind |-> "H_p", inputs |-> inputs, res |-> H_p(inputs)]
  /\ UNCHANGED <<vrfVars, hgCalls, call, extVars>>

\* _hashToScalarQ(data) of the contract
CallHashToScalarQ ==
  /\ hpCall = None /\ hgCalls = <<>>
  /\ \E parts \in SeqsUpTo(HpParts, MaxParts) :
       /\ \A i \in 1..Len(parts) : parts[i].kind = "bytes"
       /\ hpCall' = [kind |-> "_hashToScalarQ", data |-> Combined(parts),
                     value |-> _hashToScalarQ(Combined(parts))]
  /\ UNCHANGED <<vrfVars, hgCalls, call, extVars>>

\* H_G(input), called again and again
CallHG ==
  /\ hpCall = None /\ Len(hgCalls) < MaxHgCalls
  /\ \E input \in HgInputs :
       hgCalls' = Append(hgCalls, [input |-> input, point |-> H_G(input),
                                   fp |-> Fp64(InputBytes(input)),
                                   solFp |-> SolFp64(InputBytes(input))])
  /\ UNCHANGED <<vrfVars, hpCall, call, extVars>>

NextHash ==
  \/ CallHp
  \/ CallHashToScalarQ
  \/ CallHG

SpecHash == Init /\ [][NextHash]_vars

\* ------------------------------------------------------------ actions: contract boundary

\* EIP2537VrfStyleVerifier.verify called with arbitrary calldata
BoundaryVerify ==
  /\ call = None
  /\ \E chain \in Chains, pk \in PointBufs, preout \in PointBufs,
        inBlob \in BoundaryBlobs, c \in BoundaryScalars, s1 \in BoundaryScalars :
       call' = [kind |-> "verify", chain |-> chain, pk |-> pk, inBlob |-> inBlob,
                c |-> c, s1 |-> s1, preout |-> preout,
                res |-> SolVerify(chain, pk, inBlob, c, s1, preout)]
  /\ UNCHANGED <<vrfVars, hashVars, extVars>>

\* _g1Msm2 on arbitrary operands
BoundaryG1Msm2 ==
  /\ call = None
  /\ \E chain \in Chains, P1 \in PointBufs, P2 \in PointBufs,
        s1 \in BoundaryScalars, s2 \in BoundaryScalars :
       call' = [kind |-> "_g1Msm2", chain |-> chain, P1 |-> P1, s1 |-> s1,
                P2 |-> P2, s2 |-> s2,
                res |-> _g1Msm2(chain, P1, s1, P2, s2)]
  /\ UNCHANGED <<vrfVars, hashVars, extVars>>

\* the reconstruction step of the two verifiers on the same operands:
\* _g1Msm2(A, s1, B, _negateModQ(c)) of the contract and
\* A.multiply(s1).subtract(B.multiply(c)) of vrf.ts
NegatedMsm ==
  /\ call = None
  /\ \E A \in Points, B \in Points, s1 \in Scalars, c \in Scalars :
       call' = [kind |-> "negatedMsm", A |-> A, B |-> B, s1 |-> s1, c |-> c,
                neg |-> _negateModQ(c),
                msm |-> _g1Msm2("eip2537", Eip2537Encode(A), s1,
                                Eip2537Encode(B), _negateModQ(c)),
                ts |-> SubtractScaled(A, s1, B, c)]
  /\ UNCHANGED <<vrfVars, hashVars, extVars>>

\* BLS12381Test.testG1Add called with arbitrary calldata
TestG1Add ==
  /\ call = None
  /\ \E chain \in Chains, p1 \in PointBufs, p2 \in PointBufs :
       call' = [kind |-> "testG1Add", chain |-> chain, p1 |-> p1, p2 |-> p2,
                res |-> testG1Add(chain, p1, p2)]
  /\ UNCHANGED <<vrfVars, hashVars, extVars>>

\* BLS12381Test.testMapFpToG1 called with arbitrary calldata
TestMapFpToG1 ==
  /\ call = None
  /\ \E chain \in Chains, fp \in FpBufs :
       call' = [kind |-> "testMapFpToG1", chain |-> chain, fp |-> fp,
                res |-> testMapFpToG1(chain, fp)]
  /\ UNCHANGED <<vrfVars, hashVars, extVars>>

\* BLS12381Test.testG1Msm called with arbitrary calldata
TestG1Msm ==
  /\ call = None
  /\ \E chain \in Chains, p1 \in PointBufs, p2 \in PointBufs,
        s1 \in TestScalars, s2 \in TestScalars :
       call' = [kind |-> "testG1Msm", chain |-> chain, p1 |-> p1, s1 |-> s1,
                p2 |-> p2, s2 |-> s2,
                res |-> testG1Msm(chain, p1, s1, p2, s2)]
  /\ UNCHANGED <<vrfVars, hashVars, extVars>>

\* BLS12381Test.testG2Add called with arbitrary calldata
TestG2Add ==
  /\ call = None
  /\ \E q1 \in G2Bufs, q2 \in G2Bufs, r \in G2Outcomes :
       call' = [kind |-> "testG2Add", q1 |-> q1, q2 |-> q2, outcome |-> r,
                res |-> testG2Add(q1, q2, r)]
  /\ UNCHANGED <<vrfVars, hashVars, extVars>>

\* BLS12381Test.testG2Msm called with arbitrary calldata
TestG2Msm ==
  /\ call = None
  /\ \E q1 \in G2Bufs, q2 \in G2Bufs, s1 \in TestScalars, s2 \in TestScalars,
        r \in G2Outcomes :
       call' = [kind |-> "testG2Msm", q1 |-> q1, s1 |-> s1, q2 |-> q2,
                s2 |-> s2, outcome |-> r,
                res |-> testG2Msm(q1, s1, q2, s2, r)]
  /\ UNCHANGED <<vrfVars, hashVars, extVars>>

\* BLS12381Test.testPairing called with arbitrary calldata
TestPairing ==
  /\ call = None
  /\ \E pairs \in PairingBufs, r \in G2Outcomes :
       call' = [kind |-> "testPairing", pairs |-> pairs, outcome |-> r,
                res |-> testPairing(pairs, r)]
  /\ UNCHANGED <<vrfVars, hashVars, extVars>>

\* BLS12381Test.testMapFp2ToG2 called with arbitrary calldata
TestMapFp2ToG2 ==
  /\ call = None
  /\ \E fp2 \in Fp2Bufs, r \in G2Outcomes :
       call' = [kind |-> "testMapFp2ToG2", fp2 |-> fp2, outcome |-> r,
                res |-> testMapFp2ToG2(fp2, r)]
  /\ UNCHANGED <<vrfVars, hashVars, extVars>>

\* BLS12381Test.testIdentityElements called
TestIdentityElements ==
  /\ call = None
  /\ \E chain \in Chains :
       call' = [kind |-> "testIdentityElements", chain |-> chain,
                res |-> testIdentityElements(chain)]
  /\ UNCHANGED <<vrfVars, hashVars, extVars>>

NextBoundary ==
  \/ BoundaryVerify
  \/ BoundaryG1Msm2
  \/ NegatedMsm
  \/ TestG1Add
  \/ TestMapFpToG1
  \/ TestG1Msm
  \/ TestG2Add
  \/ TestG2Msm
  \/ TestPairing
  \/ TestMapFp2ToG2
  \/ TestIdentityElements

SpecBoundary == Init /\ [][NextBoundary]_vars

\* ------------------------------------------------------------ actions: interleaved calls

\* the proof prove returns for a key, an input and a nonce, as a test vector
VectorOf(sk, input, r_1) ==
  LET p == prove(sk, Multiply(BASE, sk), input, r_1)
  IN  [pk |-> Multiply(BASE, sk), input |-> input, c |-> p.c, s_1 |-> p.s_1,
       preout |-> p.preout]

\* the keys, inputs and nonces of the interleaved calls
LogKeys == {1, 3}
LogInputs == {Str(<<116>>), Bytes(<<98>>)}
LogNonces == {1, 2}

\* the vectors handed to the verifiers: proofs prove returned, and the same
\* with the challenge or the input changed
LogVectors ==
  LET honest == {VectorOf(sk, input, r_1) :
                   sk \in LogKeys, input \in LogInputs, r_1 \in LogNonces}
  IN  honest
      \cup {[v EXCEPT !.c = (v.c + 1) % CURVE_ORDER] : v \in honest}
      \cup {[v EXCEPT !.input = Str(<<233>>)] : v \in honest}

\* a call of prove completes
LogProve ==
  /\ Len(log) < MaxCalls
  /\ \E sk \in LogKeys, input \in LogInputs, r_1 \in LogNonces :
       log' = Append(log, [op |-> "prove",
                           args |-> [sk |-> sk, input |-> input, r_1 |-> r_1],
                           res |-> prove(sk, Multiply(BASE, sk), input, r_1)])
  /\ UNCHANGED <<coreVars, storage, uiVars>>

\* a call of verify (vrf.ts) completes
LogVerifyTs ==
  /\ Len(log) < MaxCalls
  /\ \E v \in LogVectors :
       log' = Append(log, [op |-> "verify", args |-> v,
                           res |-> verify(v.pk, v.input,
                                          [c |-> v.c, s_1 |-> v.s_1,
                                           preout |-> v.preout])])
  /\ UNCHANGED <<coreVars, storage, uiVars>>

\* a call of EIP2537VrfStyleVerifier.verify completes
LogVerifySol ==
  /\ Len(log) < MaxCalls
  /\ \E v \in LogVectors :
       LET res == SolVerify("eip2537", Eip2537Encode(v.pk), InputBytes(v.input),
                            v.c, v.s_1, Eip2537Encode(FromHex(v.preout).point))
       IN  /\ log' = Append(log, [op |-> "solVerify", args |-> v, res |-> res])
           /\ storage' = StorageAfterVerify(storage, res)
  /\ UNCHANGED <<coreVars, uiVars>>

NextCalls ==
  \/ LogProve
  \/ LogVerifyTs
  \/ LogVerifySol

SpecCalls == Init /\ [][NextCalls]_vars

\* ------------------------------------------------------------ actions: trade list

\* a trade, of which the grouping reads the block number
Trade(blockNumber) == [blockNumber |-> blockNumber]

RECURSIVE TradeListsOf(_)
TradeListsOf(n) ==
  IF n = 0 THEN {<<>>}
  ELSE LET shorter == TradeListsOf(n - 1)
       IN  shorter \cup { Append(ts, Trade(b)) : ts \in {t \in shorter : Len(t) = n - 1},
                                                 b \in 0..MaxBlock }

\* the lists getAllTrades can return to the grouping
TradeLists == TradeListsOf(MaxTrades)

\* the lists getAllTrades returns to the interleaved loads: the trades of the
\* contract as they grow
FetchedLists == {<<>>, <<Trade(3)>>, <<Trade(3), Trade(7)>>}

\* the messages of the errors getAllTrades rejects with
ErrorMessages == {"", "network error"}

\* what every step of the trade list leaves alone
besideTrades == <<coreVars, log, storage, demoVars>>

TradeState == [trades |-> trades, isLoading |-> isLoading,
               errorMessage |-> errorMessage]

\* the number of loadTrades calls that reached the contract so far
LoadsStarted == IF newest.kind = "none" THEN 0 ELSE newest.id

\* loadTrades() up to its return or its await
StartLoad ==
  IF ~contract
  THEN /\ errorMessage' = "Contract not initialized"
       /\ last' = [kind |-> "uninitialized", before |-> TradeState,
                   fetched |-> <<>>]
       /\ UNCHANGED <<trades, isLoading, loads, newest>>
  ELSE LET id == LoadsStarted + 1
           st == LoadStarted
       IN  /\ isLoading' = st.isLoading
           /\ errorMessage' = st.errorMessage
           /\ loads' = loads \cup {id}
           /\ newest' = [kind |-> "awaiting", id |-> id, fetched |-> <<>>]
           /\ last' = [kind |-> "started", before |-> TradeState,
                       fetched |-> <<>>]
           /\ UNCHANGED trades

LoadsLeft == LoadsStarted < MaxLoads

\* the wallet connects: web3.getContract() returns a contract from now on
ConnectContract ==
  /\ ~contract
  /\ contract' = TRUE
  /\ UNCHANGED <<mounted, listening, trades, isLoading, errorMessage, loads,
                 newest, last>>
  /\ UNCHANGED besideTrades

\* onMounted: loadTrades(), then contract.on('TradeSubmitted', ...) when
\* there is a contract
Mount ==
  /\ ~mounted
  /\ mounted' = TRUE
  /\ StartLoad
  /\ listening' = contract
  /\ UNCHANGED contract
  /\ UNCHANGED besideTrades

\* a click on Refresh, which is disabled while isLoading
Refresh ==
  /\ mounted /\ ~isLoading /\ LoadsLeft
  /\ StartLoad
  /\ UNCHANGED <<contract, mounted, listening>>
  /\ UNCHANGED besideTrades

\* a 'TradeSubmitted' event reaches the listener
TradeSubmitted ==
  /\ listening /\ LoadsLeft
  /\ StartLoad
  /\ UNCHANGED <<contract, mounted, listening>>
  /\ UNCHANGED besideTrades

\* getAllTrades() of one awaiting call resolves with one of lists:
\* trades.value = allTrades, finally isLoading.value = false
LoadResolvedWith(lists) ==
  /\ \E id \in loads, allTrades \in lists :
       /\ trades' = allTrades
       /\ isLoading' = FALSE
       /\ loads' = loads \ {id}
       /\ newest' = IF newest.id = id
                     THEN [kind |-> "resolved", id |-> id, fetched |-> allTrades]
                     ELSE newest
       /\ last' = [kind |-> "resolved", before |-> TradeState,
                   fetched |-> allTrades]
  /\ UNCHANGED <<contract, mounted, listening, errorMessage>>
  /\ UNCHANGED besideTrades

\* getAllTrades() of one of the interleaved calls resolves
LoadResolved == LoadResolvedWith(FetchedLists)

\* getAllTrades() of one awaiting call rejects: the catch block, finally
\* isLoading.value = false
LoadRejected ==
  /\ \E id \in loads, message \in ErrorMessages :
       /\ errorMessage' = ErrorText(message)
       /\ isLoading' = FALSE
       /\ loads' = loads \ {id}
       /\ newest' = IF newest.id = id
                     THEN [kind |-> "rejected", id |-> id, fetched |-> <<>>]
                     ELSE newest
       /\ last' = [kind |-> "rejected", before |-> TradeState,
                   fetched |-> <<>>]
  /\ UNCHANGED <<contract, mounted, listening, trades>>
  /\ UNCHANGED besideTrades

NextTrades ==
  \/ ConnectContract
  \/ Mount
  \/ Refresh
  \/ TradeSubmitted
  \/ LoadResolved
  \/ LoadRejected

SpecTrades == Init /\ [][NextTrades]_vars

\* getAllTrades() of the call started on mount resolves with any list of
\* trades
TradesLoaded == LoadResolvedWith(TradeLists)

\* the component is mounted, before or after the wallet connects, and the
\* load started on mount ends
NextEpochs ==
  \/ ConnectContract
  \/ Mount
  \/ TradesLoaded
  \/ LoadRejected

SpecEpochs == Init /\ [][NextEpochs]_vars

\* ------------------------------------------------------------ actions: demo hooks

besideDemo == <<coreVars, log, storage, tradeVars>>

\* AppWithBlocks is mounted: its three instances start with fresh state
AppMount ==
  /\ appMounts < MaxMounts
  /\ \A h \in HookInstances : ~hooks[h].alive
  /\ appMounts' = appMounts + 1
  /\ hooks' = [h \in HookInstances |-> [FreshHook EXCEPT !.alive = TRUE]]
  /\ UNCHANGED engine
  /\ UNCHANGED besideDemo

\* React commits a render of instance h whose dependency [demoDataLoaded]
\* differs from the one of its last effect run: the cleanup of that run,
\* if there was one, then the effect
HookCommit ==
  /\ \E h \in HookInstances :
       /\ hooks[h].alive
       /\ hooks[h].deps # (IF hooks[h].demoDataLoaded THEN "true" ELSE "false")
       /\ LET c == IF hooks[h].deps = "none"
                   THEN [hook |-> hooks[h], engine |-> engine]
                   ELSE EffectCleanup(hooks[h], engine)
               r == EffectRun(c.hook, c.engine)
           IN  /\ hooks' = [hooks EXCEPT ![h] = r.hook]
               /\ engine' = r.engine
  /\ UNCHANGED appMounts
  /\ UNCHANGED besideDemo

RECURSIVE CleanupAll(_, _, _)
CleanupAll(hs, e, todo) ==
  IF todo = {} THEN [hooks |-> hs, engine |-> e]
  ELSE LET h == CHOOSE x \in todo : TRUE
           c == IF hs[h].deps = "none"
                THEN [hook |-> hs[h], engine |-> e]
                ELSE EffectCleanup(hs[h], e)
       IN  CleanupAll([hs EXCEPT ![h] = [c.hook EXCEPT !.alive = FALSE]],
                      c.engine, todo \ {h})

\* AppWithBlocks is unmounted: React runs the cleanup of every instance
\* whose effect has run
AppUnmount ==
  /\ \E h \in HookInstances : hooks[h].alive
  /\ LET r == CleanupAll(hooks, engine, HookInstances)
     IN  hooks' = r.hooks /\ engine' = r.engine
  /\ UNCHANGED appMounts
  /\ UNCHANGED besideDemo

NextDemo ==
  \/ AppMount
  \/ HookCommit
  \/ AppUnmount

SpecDemo == Init /\ [][NextDemo]_vars

\* ------------------------------------------------------------ properties

TsDone == tsRes # Pending
SolDone == solRes # Pending
TsAccepts == tsRes.kind = "out"
TsRejects == tsRes.kind = "null"
SolAccepts == solRes.kind = "ret" /\ solRes.ok
SolRejects == solRes.kind = "ret" /\ ~solRes.ok

\* (-c) mod r, written out
NegScalar(c) == (CURVE_ORDER - c) % CURVE_ORDER

\* the point a compact encoding stands for, looked up in the table of encodings
PointOf(compact) == CHOOSE P \in Points : CompressedBytes(P) = compact

\* the challenge of section 4.5 for a vector, steps 1-3, by repeated addition:
\* R = s1*BASE + (-c)*pk, Rm = s1*H_G(input) + (-c)*preout,
\* c' = H_p(input, pk, preout, R, Rm) over the bytes vrf.ts hashes
SpecChallengeTs(v) ==
  LET P == PointOf(v.preout)
      R == G1Add(Times(v.s_1, BASE), Times(NegScalar(v.c), v.pk))
      Rm == G1Add(Times(v.s_1, H_G(v.input)), Times(NegScalar(v.c), P))
  IN  BytesToInt(KeccakBytes(
        Utf8OrBytes(v.input) \o pointToEip2537(v.pk) \o pointToEip2537(P)
        \o pointToEip2537(R) \o pointToEip2537(Rm))) % CURVE_ORDER

\* the same challenge over the bytes the contract hashes
SpecChallengeSol(v) ==
  LET P == PointOf(v.preout)
      R == G1Add(Times(v.s_1, BASE), Times(NegScalar(v.c), v.pk))
      Rm == G1Add(Times(v.s_1, H_G(v.input)), Times(NegScalar(v.c), P))
  IN  BytesToInt(KeccakBytes(
        Utf8OrBytes(v.input) \o Eip2537Encode(v.pk) \o Eip2537Encode(P)
        \o Eip2537Encode(R) \o Eip2537Encode(Rm))) % CURVE_ORDER

C2_SameDecision ==
  (TsDone /\ SolDone) => ((TsAccepts <=> SolAccepts) /\ (TsRejects <=> SolRejects))

\* C3. Whenever both verifiers accept a vector they return the same output
\* bytes.
C3_SameOutput ==
  (TsDone /\ SolDone /\ TsAccepts /\ SolAccepts) => tsRes.out = solRes.out

\* C6. Output only on acceptance: a verify call that returns, returns the
\* output Hash(preout || input) exactly when the recomputed challenge equals
\* proof.c and the rejection value (null; (false, bytes32(0))) otherwise, and
\* no call hashes the output unless it accepts.
C6_OutputOnlyOnAcceptance ==
  /\ TsDone =>
       /\ (TsAccepts \/ TsRejects) => (TsAccepts <=> SpecChallengeTs(vec) = vec.c)
       /\ TsAccepts =>
            tsRes.out = KeccakBytes(vec.preout \o Utf8OrBytes(vec.input))
       /\ ~TsAccepts => tsRes.out = <<>>
       /\ tsRes.outHashed <=> TsAccepts
  /\ SolDone =>
       /\ solRes.kind = "ret" => (solRes.ok <=> SpecChallengeSol(vec) = vec.c)
       /\ SolAccepts =>
            solRes.out = KeccakBytes(Eip2537Encode(PointOf(vec.preout))
                                     \o Utf8OrBytes(vec.input))
       /\ SolRejects => solRes.out = Zeros(HashBytes)
       /\ solRes.outHashed <=> SolAccepts

\* a vector was rejected by both verifiers after the comparison
C6_Witness ==
  /\ TsRejects /\ SolRejects
  /\ SpecChallengeTs(vec) # vec.c /\ SpecChallengeSol(vec) # vec.c

\* C7. For a valid pk, c and s_1 in [0, r) (0 included) and a preout that
\* decodes, verify ends by returning the output or the rejection value: it
\* neither throws nor reverts.
C7_RejectionIsReturnValue ==
  /\ TsDone => (TsAccepts \/ TsRejects)
  /\ SolDone => solRes.kind = "ret"

\* C8. H_p and _hashToScalarQ return the digest, read as a big-endian
\* integer, reduced modulo r: a value in [0, r).
C8_ScalarHasherRange ==
  /\ (hpCall.kind = "H_p" /\ hpCall.res.kind = "value") =>
       /\ hpCall.res.value \in 0..(CURVE_ORDER - 1)
       /\ hpCall.res.value =
            BytesToInt(KeccakBytes(hpCall.res.combined)) % CURVE_ORDER
  /\ hpCall.kind = "_hashToScalarQ" =>
       /\ hpCall.value \in 0..(CURVE_ORDER - 1)
       /\ hpCall.value = BytesToInt(KeccakBytes(hpCall.data)) % CURVE_ORDER

\* H_p returned on two arguments whose digest is not below r
C8_Witness ==
  /\ hpCall.kind = "H_p" /\ hpCall.res.kind = "value"
  /\ Len(hpCall.inputs) >= 2
  /\ hpCall.res.hash >= CURVE_ORDER

\* the code points a byte string is the UTF-8 encoding of (code points below
\* 2048), or that it is none: read from the bytes, one or two at a time
RECURSIVE Utf8Decode(_)
Utf8Decode(b) ==
  IF Len(b) = 0 THEN [ok |-> TRUE, cs |-> <<>>]
  ELSE IF b[1] < 128
    THEN LET rest == Utf8Decode(Tail(b))
         IN  [ok |-> rest.ok, cs |-> <<b[1]>> \o rest.cs]
  ELSE IF b[1] >= 194 /\ b[1] < 224 /\ Len(b) >= 2 /\ b[2] >= 128 /\ b[2] < 192
    THEN LET rest == Utf8Decode(SubSeq(b, 3, Len(b)))
         IN  [ok |-> rest.ok,
              cs |-> <<(b[1] - 192) * 64 + (b[2] - 128)>> \o rest.cs]
  ELSE [ok |-> FALSE, cs |-> <<>>]

\* the point of the digest of a byte string, without H_G and its conversions
PointOfDigest(b) == MapToCurve(Keccak(b) % FIELD_P)

\* C9. H_G is deterministic: two separate calls on the same input return the
\* same point; a call on a string returns the point of a call on the bytes
\* that decode, as UTF-8, to that string; and the point is the one the digest
\* of those bytes is mapped to.
C9_HGDeterministic ==
  \A i, j \in 1..Len(hgCalls) :
    LET a == hgCalls[i]
        b == hgCalls[j]
    IN  /\ a.input = b.input => a.point = b.point
        /\ (a.input.kind = "string" /\ b.input.kind = "bytes"
              /\ Utf8Decode(b.input.val) = [ok |-> TRUE, cs |-> a.input.val])
            => a.point = b.point /\ a.point = PointOfDigest(b.input.val)
        /\ b.input.kind = "bytes" => b.point = PointOfDigest(b.input.val)

\* H_G was called on a non-ASCII string and then on the bytes that decode to
\* it, which are not its code points
C9_Witness ==
  /\ Len(hgCalls) >= 2
  /\ hgCalls[1].input.kind = "string" /\ hgCalls[2].input.kind = "bytes"
  /\ Utf8Decode(hgCalls[2].input.val) = [ok |-> TRUE, cs |-> hgCalls[1].input.val]
  /\ hgCalls[1].input.val # hgCalls[2].input.val

\* C10. Every key pair generateKeyPair returns satisfies pk = sk*BASE for the
\* returned sk, recomputed by repeated addition.
C10_KeyPairBinds ==
  kp # None => kp.pk = Times(kp.sk, BASE)

\* a key pair with sk > 1 was returned
C10_Witness == kp # None /\ kp.sk > 1

\* C11. Key generation never returns the degenerate key: generateKeyPair
\* returns a key pair whatever the sampler drew, its sk is in [1, r), and
\* the value it sampled does not reduce to 0 modulo r.
C11_KeyInRange ==
  kp # None =>
    /\ kp.kind = "keys"
    /\ kp.sk \in 1..(CURVE_ORDER - 1)
    /\ kp.sk % CURVE_ORDER # 0
    /\ kp.pk # ZERO

\* generateKeyPair has returned the largest key, r - 1
C11_Witness ==
  kp # None /\ kp.kind = "keys" /\ kp.sk = CURVE_ORDER - 1

\* C13. verify reverts with InvalidPointLength whenever pk or preout is not
\* exactly WidePoint (128) bytes, whatever the other arguments, and has made
\* no precompile call; _g1Msm2 does the same on its point operands.
C13_LengthValidation ==
  /\ (call.kind = "verify"
        /\ (Len(call.pk) # WidePoint \/ Len(call.preout) # WidePoint)) =>
       /\ call.res.kind = "revert"
       /\ call.res.err = "InvalidPointLength"
       /\ call.res.calls = <<>>
  /\ (call.kind = "_g1Msm2"
        /\ (Len(call.P1) # WidePoint \/ Len(call.P2) # WidePoint)) =>
       /\ ~call.res.ok
       /\ call.res.err = "InvalidPointLength"
       /\ call.res.calls = <<>>

\* verify was called with a pk one byte too long and a scalar out of range
C13_Witness ==
  /\ call.kind = "verify"
  /\ Len(call.pk) = WidePoint + 1 /\ Len(call.preout) = WidePoint
  /\ call.c >= Q

\* C14. testG1Add reverts with "G1 point must be 128 bytes" when either
\* operand is not exactly WidePoint bytes, testMapFpToG1 with "Field element
\* must be 64 bytes" when its operand is not exactly WideCoord bytes; neither
\* has called a precompile or emitted TestResult.
C14_TestLengthGuards ==
  /\ (call.kind = "testG1Add"
        /\ (Len(call.p1) # WidePoint \/ Len(call.p2) # WidePoint)) =>
       /\ call.res.kind = "revert"
       /\ call.res.reason = "G1 point must be 128 bytes"
       /\ call.res.calls = <<>> /\ call.res.events = <<>>
  /\ (call.kind = "testMapFpToG1" /\ Len(call.fp) # WideCoord) =>
       /\ call.res.kind = "revert"
       /\ call.res.reason = "Field element must be 64 bytes"
       /\ call.res.calls = <<>> /\ call.res.events = <<>>

\* testG1Add was called with a first operand of the right length and a
\* second one of a wrong length
C14_Witness ==
  /\ call.kind = "testG1Add"
  /\ Len(call.p1) = WidePoint /\ Len(call.p2) # WidePoint

\* a precompile call that failed or returned other than WidePoint bytes
CallFailed(r) == ~r.ok \/ Len(r.result) # WidePoint

\* C15. In a verify call that passed the length and scalar checks: if
\* MAP_FP_TO_G1 fails or returns other than WidePoint bytes the call reverts
\* with PrecompileMapToG1Failure; else if either G1MSM call fails or returns
\* other than WidePoint bytes it reverts with PrecompileG1MsmFailure; only
\* when all three calls succeed does verify return.
C15_PrimitiveFailuresSurfaced ==
  (call.kind = "verify" /\ Len(call.pk) = WidePoint
     /\ Len(call.preout) = WidePoint /\ call.c < Q /\ call.s1 < Q) =>
    LET neg == BE((Q - call.c) % Q, HashBytes)
        map == PrecompileCall(call.chain, "BLS12_MAP_FP_TO_G1",
                              Zeros(HashBytes) \o KeccakBytes(call.inBlob))
        msmR == PrecompileCall(call.chain, "BLS12_G1MSM",
                  Eip2537Encode(BASE) \o BE(call.s1, HashBytes) \o call.pk \o neg)
        msmRm == PrecompileCall(call.chain, "BLS12_G1MSM",
                   map.result \o BE(call.s1, HashBytes) \o call.preout \o neg)
    IN  IF CallFailed(map)
        THEN call.res.kind = "revert" /\ call.res.err = "PrecompileMapToG1Failure"
        ELSE IF CallFailed(msmR) \/ CallFailed(msmRm)
        THEN call.res.kind = "revert" /\ call.res.err = "PrecompileG1MsmFailure"
        ELSE call.res.kind = "ret"

\* verify reverted at its second G1MSM call: pk was a point, preout was not
C15_Witness ==
  /\ call.kind = "verify"
  /\ call.res.kind = "revert" /\ call.res.err = "PrecompileG1MsmFailure"
  /\ Len(call.res.calls) = 3

\* C16. For sk and r_1 in [1, r), prove returns preout = sk*H_G(x),
\* c = H_p(x, pk, preout, r_1*BASE, r_1*H_G(x)) over the bytes of these five
\* arguments in this order, and s_1 = (r_1 + c*sk) mod r, each recomputed by
\* repeated addition; the proof is a function of (sk, pk, x, r_1).
C16_ProverAlgorithm ==
  (origin.kind \in {"proved", "threw"} /\ origin.sk \in 1..(CURVE_ORDER - 1)
     /\ origin.r_1 \in 1..(CURVE_ORDER - 1)) =>
    LET x == Utf8OrBytes(origin.input)
        H == H_G(origin.input)
        preout == Times(origin.sk, H)
        c == BytesToInt(KeccakBytes(
               x \o pointToEip2537(kp.pk) \o pointToEip2537(preout)
               \o pointToEip2537(Times(origin.r_1, BASE))
               \o pointToEip2537(Times(origin.r_1, H)))) % CURVE_ORDER
    IN  /\ origin.kind = "proved"
        /\ vec.pk = kp.pk /\ vec.input = origin.input
        /\ vec.preout = CompressedBytes(preout)
        /\ vec.c = c
        /\ vec.s_1 = (origin.r_1 + c * origin.sk) % CURVE_ORDER

\* prove returned a proof for a supplied nonce, with sk > 1, r_1 > 1, c > 0
\* and H_G(x) different from BASE
C16_Witness ==
  /\ origin.kind = "proved" /\ origin.supplied
  /\ origin.sk > 1 /\ origin.r_1 > 1 /\ vec.c > 0
  /\ H_G(origin.input) # BASE

\* C17. For sk in [1, r) and a nonce r_1 in [0, r), supplied or drawn, prove
\* returns a proof, and its c and s_1 are in [0, r).
C17_ProofFieldRanges ==
  (origin.kind \in {"proved", "threw"} /\ origin.sk \in 1..(CURVE_ORDER - 1)
     /\ origin.r_1 \in 0..(CURVE_ORDER - 1)) =>
    /\ origin.kind = "proved"
    /\ vec.c \in 0..(CURVE_ORDER - 1)
    /\ vec.s_1 \in 0..(CURVE_ORDER - 1)

\* C18. For c in [0, r), _negateModQ(c) = (r - c) mod r, in [0, r) and 0 for
\* c = 0; and for all points A, B and s1, c in [0, r) the contract's
\* two-term MSM s1*A + _negateModQ(c)*B is the point vrf.ts computes as
\* A.multiply(s1).subtract(B.multiply(c)).
C18_NegationReplacesSubtraction ==
  call.kind = "negatedMsm" =>
    /\ call.neg = (CURVE_ORDER - call.c) % CURVE_ORDER
    /\ call.neg \in 0..(CURVE_ORDER - 1)
    /\ (call.c = 0 => call.neg = 0)
    /\ call.msm.ok
    /\ call.ts.kind = "point"
    /\ call.msm.out = Eip2537Encode(call.ts.point)

\* C19. For a proof prove returned, the R verify has reconstructed is
\* r_1*BASE and its R_m is r_1*H_G(x), both recomputed by repeated addition,
\* and the byte string it hashed is the one the prover hashed.
C19_TranscriptReconstruction ==
  (origin.kind = "proved" /\ TsDone /\ tsRes.kind # "throw") =>
    /\ tsRes.R = Times(origin.r_1, BASE)
    /\ tsRes.R_m = Times(origin.r_1, H_G(origin.input))
    /\ tsRes.hashed = origin.hashed

\* verify has reconstructed the transcript of a proof with c > 0, made with
\* sk > 1 and r_1 > 1, for an input that is not mapped to BASE
C19_Witness ==
  /\ origin.kind = "proved" /\ TsDone /\ tsRes.kind # "throw"
  /\ origin.sk > 1 /\ origin.r_1 > 1 /\ vec.c > 1
  /\ tsRes.R # tsRes.R_m

\* C20. The field element H_G and _mapToG1 build for an input is
\* 2*HashBytes (64) bytes, HashBytes zero bytes followed by the digest of the
\* input; its integer is below 2^(8*HashBytes) and below p, so it is mapped
\* to the curve unreduced; both build the same bytes.
C20_FieldElementInRange ==
  \A i \in 1..Len(hgCalls) :
    LET e == hgCalls[i]
        digest == KeccakBytes(Utf8OrBytes(e.input))
    IN  /\ Len(e.fp) = 2 * HashBytes /\ Len(e.fp) = WideCoord
        /\ SubSeq(e.fp, 1, HashBytes) = Zeros(HashBytes)
        /\ SubSeq(e.fp, HashBytes + 1, 2 * HashBytes) = digest
        /\ BytesToInt(e.fp) < Pow256(HashBytes)
        /\ BytesToInt(e.fp) < FIELD_P
        /\ e.point = MapToCurve(BytesToInt(e.fp))
        /\ e.solFp = e.fp

\* H_G was called on an input whose digest has a nonzero top byte
C20_Witness ==
  Len(hgCalls) >= 1 /\ hgCalls[1].fp[HashBytes + 1] > 0

\* the encoding of one argument of the scalar hasher: a string as its UTF-8
\* bytes, a byte array verbatim, a scalar as HashBytes (32) big-endian bytes
EncodingOf(a) ==
  IF a.kind = "string" THEN Utf8(a.val)
  ELSE IF a.kind = "bytes" THEN a.val
  ELSE [i \in 1..HashBytes |-> (a.val \div Pow256(HashBytes - i)) % 256]

\* the encodings of a list of arguments, one after the other
RECURSIVE Concatenated(_)
Concatenated(args) ==
  IF Len(args) = 0 THEN <<>>
  ELSE EncodingOf(Head(args)) \o Concatenated(Tail(args))

\* a list of arguments with the arguments at i and j exchanged
Exchanged(args, i, j) == [args EXCEPT ![i] = args[j], ![j] = args[i]]

\* the arguments of the last H_p call are strings, byte arrays and scalars
\* that fit a word
ScalarArguments ==
  /\ hpCall.kind = "H_p"
  /\ \A i \in 1..Len(hpCall.inputs) :
       hpCall.inputs[i].kind = "bigint" =>
         hpCall.inputs[i].val \in 0..(WordRange - 1)

\* C21 as stated. H_p hashes the concatenation of its arguments' encodings
\* in argument order, and exchanging any two arguments whose encodings
\* differ changes the hashed byte string.
C21_ExchangeChangesBytes ==
  ScalarArguments =>
    /\ hpCall.res.kind = "value"
    /\ hpCall.res.combined = Concatenated(hpCall.inputs)
    /\ \A i, j \in 1..Len(hpCall.inputs) :
         EncodingOf(hpCall.inputs[i]) # EncodingOf(hpCall.inputs[j]) =>
           H_p(Exchanged(hpCall.inputs, i, j)).combined # hpCall.res.combined

\* C21. H_p hashes the concatenation of its arguments' encodings in argument
\* order (strings as UTF-8, byte arrays verbatim, scalars as HashBytes
\* big-endian bytes), the contract's hasher hashes its packed bytes, and
\* exchanging two arguments whose encodings differ and have the same length
\* changes the hashed byte string.
C21_TranscriptSerialization ==
  /\ ScalarArguments =>
       /\ hpCall.res.kind = "value"
       /\ hpCall.res.combined = Concatenated(hpCall.inputs)
       /\ hpCall.res.hash = BytesToInt(KeccakBytes(Concatenated(hpCall.inputs)))
       /\ \A i, j \in 1..Len(hpCall.inputs) :
            (/\ EncodingOf(hpCall.inputs[i]) # EncodingOf(hpCall.inputs[j])
             /\ Len(EncodingOf(hpCall.inputs[i])) = Len(EncodingOf(hpCall.inputs[j])))
            => H_p(Exchanged(hpCall.inputs, i, j)).combined # hpCall.res.combined
  /\ hpCall.kind = "_hashToScalarQ" =>
       hpCall.value = BytesToInt(KeccakBytes(hpCall.data)) % Q

\* H_p was called on a scalar and a byte array whose encodings differ and
\* have the same length
C21_Witness ==
  /\ ScalarArguments /\ Len(hpCall.inputs) = 2
  /\ hpCall.inputs[1].kind = "bigint" /\ hpCall.inputs[1].val > 0
  /\ hpCall.inputs[2].kind = "bytes"
  /\ Len(EncodingOf(hpCall.inputs[1])) = Len(EncodingOf(hpCall.inputs[2]))
  /\ EncodingOf(hpCall.inputs[1]) # EncodingOf(hpCall.inputs[2])

\* the affine coordinates of a point; toAffine gives (0, 0) for the point at
\* infinity
CoordX(P) == IF P = ZERO THEN 0 ELSE AffineX[P]
CoordY(P) == IF P = ZERO THEN 0 ELSE AffineY[P]

\* the wide layout X || Y: each coordinate as FpBytes (48) big-endian bytes
\* after PadBytes (16) zero bytes
WideLayout(P) ==
  [i \in 1..WidePoint |->
     IF i <= PadBytes THEN 0
     ELSE IF i <= WideCoord
       THEN (CoordX(P) \div Pow256(WideCoord - i)) % 256
     ELSE IF i <= WideCoord + PadBytes THEN 0
     ELSE (CoordY(P) \div Pow256(WidePoint - i)) % 256]

\* C22. Every point of the transcript is hashed in the wide layout: the
\* bytes prove hashed are x || wide(pk) || wide(sk*H_G(x)) || wide(r_1*BASE)
\* || wide(r_1*H_G(x)), and the bytes verify hashed are x || wide(pk) ||
\* wide(preout) || wide(R) || wide(R_m), preout being the point whose
\* compact encoding the proof carries.
C22_WidePointEncoding ==
  /\ origin.kind = "proved" =>
       origin.hashed =
         Utf8OrBytes(origin.input) \o WideLayout(kp.pk)
         \o WideLayout(Times(origin.sk, H_G(origin.input)))
         \o WideLayout(Times(origin.r_1, BASE))
         \o WideLayout(Times(origin.r_1, H_G(origin.input)))
  /\ (TsDone /\ tsRes.kind # "throw") =>
       tsRes.hashed =
         Utf8OrBytes(vec.input) \o WideLayout(vec.pk)
         \o WideLayout(PointOf(vec.preout))
         \o WideLayout(tsRes.R) \o WideLayout(tsRes.R_m)

\* C23. Every verify call ends Accepted or Rejected, whatever calls were
\* completed before it; two calls of the same verifier on the same arguments
\* return the same result wherever they stand among the other calls; and the
\* contract's storage is never written.
C23_Stateless ==
  /\ \A i \in 1..Len(log) :
       /\ log[i].op = "verify" => log[i].res.kind \in {"out", "null"}
       /\ log[i].op = "solVerify" => log[i].res.kind = "ret"
       /\ \A j \in 1..Len(log) :
            (log[i].op = log[j].op /\ log[i].args = log[j].args)
            => log[i].res = log[j].res
  /\ storage = {}

\* C24. generateKeyPair draws once per call; prove draws once when no nonce
\* is supplied and its r_1 is that draw, and draws nothing when a nonce is
\* supplied and uses it unchanged as r_1.
C24_EntropyDrawnOnce ==
  /\ kp # None => kp.draws = 1
  /\ origin.kind \in {"proved", "threw"} =>
       /\ origin.supplied => (origin.draws = 0 /\ origin.r_1 = origin.nonce)
       /\ ~origin.supplied =>
            /\ origin.draws = 1
            /\ origin.r_1 = (origin.entropy % (CURVE_ORDER - 1)) + 1
       /\ origin.kind = "proved" =>
            vec.s_1 = (origin.r_1 + vec.c * origin.sk) % CURVE_ORDER

\* prove returned for a supplied nonce after a key generation, and nothing
\* was drawn for the nonce
C24_Witness ==
  /\ kp # None /\ kp.draws = 1
  /\ origin.kind = "proved" /\ origin.supplied /\ origin.draws = 0
  /\ origin.nonce = CURVE_ORDER - 1

\* C25. verify reverts whenever c >= Q or s1 >= Q, before any precompile
\* call: with InvalidScalar when pk and preout are WidePoint (128) bytes long,
\* with InvalidPointLength when one of them is not; a call that returns had
\* both scalars below Q.
C25_ScalarBounds ==
  call.kind = "verify" =>
    /\ (call.c >= Q \/ call.s1 >= Q) =>
         /\ call.res.kind = "revert"
         /\ call.res.calls = <<>>
         /\ call.res.err =
              IF Len(call.pk) = WidePoint /\ Len(call.preout) = WidePoint
              THEN "InvalidScalar" ELSE "InvalidPointLength"
    /\ call.res.kind = "ret" => (call.c < Q /\ call.s1 < Q)

\* verify was called on a chain with the precompiles, with two points of G1
\* and the challenge Q, which reduces to 0
C25_Witness ==
  /\ call.kind = "verify" /\ call.chain = "eip2537"
  /\ Eip2537Decode(call.pk).ok /\ Eip2537Decode(call.preout).ok
  /\ call.c = Q /\ call.s1 < Q

\* the last call is a call of a test function on G1 with operands of the
\* required lengths, resp. on G2 or the pairing
G1WrapperCall ==
  \/ call.kind \in {"testG1Add", "testG1Msm"}
       /\ Len(call.p1) = WidePoint /\ Len(call.p2) = WidePoint
  \/ call.kind = "testMapFpToG1" /\ Len(call.fp) = WideCoord
G2WrapperCall ==
  \/ call.kind \in {"testG2Add", "testG2Msm"}
       /\ Len(call.q1) = 2 * WidePoint /\ Len(call.q2) = 2 * WidePoint
  \/ call.kind = "testPairing" /\ Len(call.pairs) % (3 * WidePoint) = 0
  \/ call.kind = "testMapFp2ToG2" /\ Len(call.fp2) = 2 * WideCoord

\* the bytes a test function hands to its precompile
PackedOperands ==
  IF call.kind = "testG1Add" THEN call.p1 \o call.p2
  ELSE IF call.kind = "testMapFpToG1" THEN call.fp
  ELSE IF call.kind = "testG1Msm"
    THEN call.p1 \o call.s1 \o call.p2 \o call.s2
  ELSE IF call.kind = "testG2Add" THEN call.q1 \o call.q2
  ELSE IF call.kind = "testG2Msm"
    THEN call.q1 \o call.s1 \o call.q2 \o call.s2
  ELSE IF call.kind = "testPairing" THEN call.pairs
  ELSE call.fp2

\* C26. For operands of the required lengths a test function returns: it
\* has made one precompile call on its packed operands, emitted one
\* TestResult with that call's (success, result), and returns the same pair,
\* also when the call failed; testIdentityElements returns.
C26_WrappersReport ==
  /\ (G1WrapperCall \/ G2WrapperCall) =>
       /\ call.res.kind = "ret"
       /\ Len(call.res.calls) = 1
       /\ call.res.calls[1].input = PackedOperands
       /\ Len(call.res.events) = 1
       /\ call.res.events[1].success = call.res.success
       /\ call.res.events[1].result = call.res.result
  /\ G1WrapperCall =>
       LET r == PrecompileCall(call.chain, call.res.calls[1].addr, PackedOperands)
       IN  call.res.success = r.ok /\ call.res.result = r.result
  /\ G2WrapperCall =>
       call.res.success = call.outcome.ok /\ call.res.result = call.outcome.result
  /\ call.kind = "testIdentityElements" =>
       /\ call.res.kind = "ret"
       /\ Len(call.res.calls) = 2 /\ Len(call.res.events) = 2

\* testG1Add was called with two operands of the right length, one of them
\* no point, and the precompile call failed
C26_Witness ==
  /\ call.kind = "testG1Add" /\ G1WrapperCall
  /\ call.chain = "eip2537" /\ ~call.res.success

\* the trades of ts of epoch e, in their order
TradesOfEpoch(ts, e) ==
  SelectSeq(ts, LAMBDA t : t.blockNumber \div EpochLength = e)

\* C27. epochGroups has one group for every epoch that has a trade, holding
\* just the trades t with floor(t.blockNumber / 5) = epochNumber; a group is
\* not empty, spans the blocks 5*epochNumber .. 5*epochNumber + 4, which
\* contain its trades; the epoch numbers decrease strictly along the groups;
\* no trades give no groups.
C27_EpochGroupsPartition ==
  LET gs == epochGroups(trades)
  IN  /\ trades = <<>> => gs = <<>>
      /\ \A i \in 1..Len(trades) :
           \E j \in 1..Len(gs) :
             gs[j].epochNumber * EpochLength <= trades[i].blockNumber
               /\ trades[i].blockNumber < (gs[j].epochNumber + 1) * EpochLength
      /\ \A j \in 1..Len(gs) :
           /\ gs[j].trades # <<>>
           /\ gs[j].trades = TradesOfEpoch(trades, gs[j].epochNumber)
           /\ gs[j].startBlock = 5 * gs[j].epochNumber
           /\ gs[j].endBlock = 5 * gs[j].epochNumber + 4
           /\ \A k \in 1..Len(gs[j].trades) :
                gs[j].startBlock <= gs[j].trades[k].blockNumber
                  /\ gs[j].trades[k].blockNumber <= gs[j].endBlock
      /\ \A j \in 1..(Len(gs) - 1) : gs[j].epochNumber > gs[j + 1].epochNumber

\* trades of three epochs were loaded out of order, two of them of one epoch
\* with a trade of another one between them
C27_Witness ==
  /\ last.kind = "resolved"
  /\ trades = <<Trade(4), Trade(10), Trade(0)>>
  /\ Len(epochGroups(trades)) = 2

\* C28. After a step of loadTrades: a call that ended has left isLoading
\* false; one that succeeded has put the fetched list into trades and left
\* errorMessage empty; one that failed has left trades alone and
\* errorMessage not empty; without a contract errorMessage is 'Contract not
\* initialized' and trades and isLoading are as before.
C28_LoadSettles ==
  /\ last.kind = "resolved" =>
       ~isLoading /\ trades = last.fetched /\ errorMessage = ""
  /\ last.kind = "rejected" =>
       ~isLoading /\ trades = last.before.trades /\ errorMessage # ""
  /\ last.kind = "uninitialized" =>
       /\ errorMessage = "Contract not initialized"
       /\ trades = last.before.trades
       /\ isLoading = last.before.isLoading

\* C29. While a loadTrades call awaits getAllTrades isLoading is true, and
\* when none awaits any more trades is what the call started last fetched.
C29_LoadingCoversLoads ==
  /\ loads # {} => isLoading
  /\ (loads = {} /\ newest.kind = "resolved") => trades = newest.fetched

\* C30. The demo data is generated and preloaded into the shared engine at
\* most once and the engine is started at most once, whatever effects and
\* cleanups of the instances have run; an instance holds at most one
\* subscription, and none once it is unmounted.
C30_DemoLoadedOnce ==
  /\ engine.generated <= 1
  /\ engine.preloaded <= 1
  /\ engine.started <= 1
  /\ \A h \in HookInstances :
       /\ hooks[h].subscriptions <= 1
       /\ ~hooks[h].alive => hooks[h].subscriptions = 0

====
